---- MODULE Spec2Model ----
(***************************************************************************)
(* Pure in-phase CEST profile (chemex.experiments.cest.profiles.ip_1h_eq_b) *)
(*                                                                         *)
(* The model follows one Profile object: the constructor loop that ties    *)
(* the transverse relaxation rates, filter_points and                      *)
(* calculate_unscaled_profile.                                             *)
(*                                                                         *)
(* Representation.  Frequencies are exact integers.  Angular frequencies   *)
(* are kept in units of 2*pi rad/s, so ppm_i holds ppm_i / (2*pi), the     *)
(* number of Hz per ppm, and omega_i holds omega_i / (2*pi).  The          *)
(* comparison abs(nu) > on_resonance_filter * 0.5 is written               *)
(* 2 * abs(nu) > on_resonance_filter.  Matrices returned by the basis      *)
(* module and by scipy are symbolic terms (records naming the call and     *)
(* its arguments); a weighted average is a formal linear combination of    *)
(* such terms with exact rational coefficients.  The float b1_inh is a     *)
(* record: the np.inf sentinel or a finite value in Hz.                    *)
(***************************************************************************)
EXTENDS Integers, Sequences, FiniteSets, TLC

MaxPoints == 3
MaxScale == 3

VARIABLES model, map_names, default_params, expr0,
          carrier, ppm_i, on_resonance_filter, time_t1, time_d1,
          b1_inh, b1_weights, liouvillians_b1,
          b1_offsets, val, err, reference,
          pc, op, kwargs, index, profile, ret, fault, calls,
          meas0, applied, memo

ctor == <<model, map_names, default_params, expr0>>
settings == <<carrier, ppm_i, on_resonance_filter, time_t1, time_d1,
              b1_inh, b1_weights, liouvillians_b1>>
arrays == <<b1_offsets, val, err, reference>>
call == <<kwargs, index, profile, ret, fault, calls>>
vars == <<ctor, settings, arrays, pc, op, call, meas0, applied, memo>>

Inf == [inf |-> TRUE, hz |-> 0]

Finite(x) == [inf |-> FALSE, hz |-> x]

-----------------------------------------------------------------------------
(* Generic helpers *)

Abs(x) == IF x < 0 THEN -x ELSE x

RECURSIVE SeqSum(_)
SeqSum(s) == IF s = <<>> THEN 0 ELSE Head(s) + SeqSum(Tail(s))

RECURSIVE GCD(_, _)
GCD(a, b) == IF b = 0 THEN a ELSE GCD(b, a % b)

Reduce(n, d) == <<n \div GCD(n, d), d \div GCD(n, d)>>

Column(ms, f) == [i \in 1..Len(ms) |-> ms[i][f]]

-----------------------------------------------------------------------------
(* Inputs *)

Measurements ==
    { [b1_offset |-> 250,  val |-> 11, err |-> 1, reference |-> FALSE],
      [b1_offset |-> 275,  val |-> 12, err |-> 2, reference |-> FALSE],
      [b1_offset |-> 290,  val |-> 13, err |-> 1, reference |-> FALSE],
      [b1_offset |-> 310,  val |-> 14, err |-> 2, reference |-> FALSE],
      [b1_offset |-> 1000, val |-> 15, err |-> 1, reference |-> TRUE] }

MeasAt(off) == CHOOSE m \in Measurements : m.b1_offset = off

Scenario == <<MeasAt(250), MeasAt(290), MeasAt(310), MeasAt(1000)>>

Injective(f) == \A i, j \in DOMAIN f : f[i] = f[j] => i = j

Datasets ==
    { d \in UNION { [1..n -> Measurements] : n \in 0..MaxPoints } : Injective(d) }
    \cup {Scenario}

SmallDatasets == { <<MeasAt(290), MeasAt(1000)>> }

CarrierValue == {2}
HzPerPpm == {50}
CsValues == {7, 8}
FilterWidths == {0, 50}

Models == { <<"2st", "pb_kex">>, <<"3st", "pb_kex">>, <<"4st", "pb_kex">> }

B1Settings ==
    { [b1_inh |-> Inf, omega1s |-> <<20>>, b1_weights |-> <<1>>],
      [b1_inh |-> Finite(2), omega1s |-> <<20>>, b1_weights |-> <<1>>],
      [b1_inh |-> Finite(2), omega1s |-> <<18, 20, 22>>, b1_weights |-> <<2, 3, 2>>] }

KwargsSet == { ("cs_i_a" :> 4) @@ ("cs_i_b" :> 8),
               ("cs_i_a" :> 4) }

-----------------------------------------------------------------------------
(* The basis module (chemex.bases.*.ixyz_eq) *)

Contains(m, token) == \E i \in 1..Len(m) : m[i] = token

base(m) == IF Contains(m, "3st") THEN "three_state"
           ELSE IF Contains(m, "4st") THEN "four_state"
           ELSE "two_state"

StatesOf(b) == IF b = "three_state" THEN {"a", "b", "c"}
               ELSE IF b = "four_state" THEN {"a", "b", "c", "d"}
               ELSE {"a", "b"}

R2Name(s) == CASE s = "a" -> "r2_i_a" [] s = "b" -> "r2_i_b"
               [] s = "c" -> "r2_i_c" [] s = "d" -> "r2_i_d"

CsName(s) == CASE s = "a" -> "cs_i_a" [] s = "b" -> "cs_i_b"
               [] s = "c" -> "cs_i_c" [] s = "d" -> "cs_i_d"

ParamNames(b) == {"pb"} \cup { R2Name(s) : s \in StatesOf(b) }
                        \cup { CsName(s) : s \in StatesOf(b) }

Handle(name) == <<name, "G23N">>

NoExpr == <<>>

PresetExpr == <<"preset">>

create_map_names(b) == [n \in ParamNames(b) |-> Handle(n)]

create_default_params(b, preset) ==
    [h \in { Handle(n) : n \in ParamNames(b) } |->
        [value |-> 0, expr |-> IF h \in preset THEN PresetExpr ELSE NoExpr]]

compute_liouvillian_b1(omega1) == [omega1x_i |-> omega1]

compute_liouvillian_nob1(om, kw) == [omega_i |-> om, kwargs |-> kw]

compute_equilibrium_after_d1(d1, kw) == [time_d1 |-> d1, kwargs |-> kw]

-----------------------------------------------------------------------------
(* Initial state: the object at the end of create_default_params *)

Presets(b) == {{}} \cup { {Handle(n)} : n \in ParamNames(b) }

Configs ==
    { [model |-> <<"2st", "pb_kex">>, preset |-> {}, data |-> d, b1 |-> s, width |-> w] :
          d \in Datasets, s \in B1Settings, w \in FilterWidths }
    \cup
    { [model |-> m, preset |-> p, data |-> d, b1 |-> s, width |-> 50] :
          m \in Models, p \in UNION { Presets(base(mm)) : mm \in Models },
          d \in SmallDatasets, s \in {x \in B1Settings : x.b1_inh = Inf} }

NoMemo == [kw \in KwargsSet |-> [known |-> FALSE, value |-> <<>>]]

NoOp == [name |-> "none", cs |-> 0]

NoFault == [call |-> "none", at |-> 0]

NoKwargs == ("cs_i_a" :> 4)

Init ==
    \E c \in Configs :
        /\ c.preset \subseteq { Handle(n) : n \in ParamNames(base(c.model)) }
        /\ model = c.model
        /\ map_names = create_map_names(base(c.model))
        /\ default_params = create_default_params(base(c.model), c.preset)
        /\ expr0 = [h \in DOMAIN default_params |-> default_params[h].expr]
        /\ carrier \in CarrierValue
        /\ ppm_i \in HzPerPpm
        /\ on_resonance_filter = c.width
        /\ time_t1 = 1
        /\ time_d1 = 1
        /\ b1_inh = c.b1.b1_inh
        /\ b1_weights = c.b1.b1_weights
        /\ liouvillians_b1 = [k \in 1..Len(c.b1.omega1s) |->
                                  compute_liouvillian_b1(c.b1.omega1s[k])]
        /\ b1_offsets = Column(c.data, "b1_offset")
        /\ val = Column(c.data, "val")
        /\ err = Column(c.data, "err")
        /\ reference = Column(c.data, "reference")
        /\ pc = "new"
        /\ op = NoOp
        /\ kwargs = NoKwargs
        /\ index = 0
        /\ profile = <<>>
        /\ ret = <<>>
        /\ fault = NoFault
        /\ calls = <<>>
        /\ meas0 = c.data
        /\ applied = {}
        /\ memo = NoMemo

-----------------------------------------------------------------------------
(* Profile.__init__, the loop over ('r2_i_b', 'r2_i_c', 'r2_i_d') *)

TiedNames_cd == <<"r2_i_c", "r2_i_d">>

TiedNames == <<"r2_i_b", "r2_i_c", "r2_i_d">>

TiedExpr == map_names["r2_i_a"]

RECURSIVE TieFrom(_, _)
TieFrom(dp, i) ==
    IF i > Len(TiedNames) THEN dp
    ELSE IF TiedNames[i] \in DOMAIN map_names
         THEN TieFrom([dp EXCEPT ![map_names[TiedNames[i]]].expr = TiedExpr], i + 1)
         ELSE TieFrom(dp, i + 1)

TieR2 ==
    /\ pc = "new"
    /\ default_params' = TieFrom(default_params, 1)
    /\ pc' = "idle"
    /\ op' = [name |-> "__init__", cs |-> 0]
    /\ UNCHANGED <<model, map_names, expr0, settings, arrays, call, meas0, applied, memo>>

-----------------------------------------------------------------------------
(* Profile.filter_points *)

Params(cs) == [h \in DOMAIN default_params |->
                  [value |-> IF h = Handle("cs_i_b") THEN cs ELSE 0]]

nu_offset(cs, b1_offset) == (cs - carrier) * ppm_i - b1_offset

Keep_ge(nu) == 2 * Abs(nu) >= on_resonance_filter

Keep_noabs(nu) == 2 * nu > on_resonance_filter

Keep(nu) == 2 * Abs(nu) > on_resonance_filter

mask_shifted(cs) ==
    [i \in 1..Len(b1_offsets) |->
        IF i < Len(b1_offsets) THEN Keep(nu_offset(cs, b1_offsets[i + 1])) ELSE TRUE]

mask(cs) == [i \in 1..Len(b1_offsets) |-> Keep(nu_offset(cs, b1_offsets[i]))]

RECURSIVE MaskFrom(_, _, _)
MaskFrom(arr, m, i) ==
    IF i > Len(arr) THEN <<>>
    ELSE IF m[i] THEN <<arr[i]>> \o MaskFrom(arr, m, i + 1)
         ELSE MaskFrom(arr, m, i + 1)

ApplyMask(arr, m) == MaskFrom(arr, m, 1)

Masked_val_unmasked(m) == val

Masked_val(m) == ApplyMask(val, m)

Idle == pc \in {"idle", "returned", "raised"}

filter_points ==
    /\ Idle
    /\ \E c \in CsValues :
         LET params == Params(c)
             cs == params[map_names["cs_i_b"]].value
             m == mask(cs)
         IN /\ b1_offsets' = ApplyMask(b1_offsets, m)
            /\ val' = Masked_val(m)
            /\ err' = ApplyMask(err, m)
            /\ reference' = ApplyMask(reference, m)
            /\ op' = [name |-> "filter_points", cs |-> cs]
            /\ applied' = applied \cup {cs}
    /\ pc' = "idle"
    /\ memo' = NoMemo
    /\ kwargs' = NoKwargs
    /\ index' = 0
    /\ profile' = <<>>
    /\ ret' = <<>>
    /\ fault' = NoFault
    /\ calls' = <<>>
    /\ UNCHANGED <<ctor, settings, meas0>>

-----------------------------------------------------------------------------
(* Profile.calculate_unscaled_profile *)

CsKeys == <<"cs_i_a", "cs_i_b", "cs_i_c", "cs_i_d">>

Get(kw, key, default) == IF key \in DOMAIN kw THEN kw[key] ELSE default

cs_i(kw) == [j \in 1..Len(CsKeys) |-> Get(kw, CsKeys[j], 0)]

omega_i_cars(kw) == [j \in 1..Len(CsKeys) |-> (cs_i(kw)[j] - carrier) * ppm_i]

omega_i(kw, b1_offset) == [j \in 1..Len(CsKeys) |-> omega_i_cars(kw)[j] - b1_offset]

mag0(kw) == compute_equilibrium_after_d1(time_d1, kw)

louvillian_nob1(kw, b1_offset) == compute_liouvillian_nob1(omega_i(kw, b1_offset), kw)

MatAdd(A, B) == [b1 |-> A, nob1 |-> B]

liouvillians(kw, b1_offset) ==
    [k \in 1..Len(liouvillians_b1) |->
        MatAdd(liouvillians_b1[k], louvillian_nob1(kw, b1_offset))]

IdealRegime_inverted == b1_inh # Inf

IdealRegime == b1_inh = Inf

EigPropagator(L, t) ==
    [fn |-> "eig", L |-> L, t |-> t, rows |-> "index_iz_b", cols |-> "index_iz_eq"]

expm(L, t) == [fn |-> "expm", L |-> L, t |-> t]

propagators(Ls) == [k \in 1..Len(Ls) |-> expm(Ls[k], time_t1)]

WeightOf(ps, ws, p) == SeqSum([k \in 1..Len(ps) |-> IF ps[k] = p THEN ws[k] ELSE 0])

average_sum(ps, ws) ==
    [p \in { ps[k] : k \in 1..Len(ps) } |-> <<WeightOf(ps, ws, p), 1>>]

average(ps, ws) ==
    [p \in { ps[k] : k \in 1..Len(ps) } |-> Reduce(WeightOf(ps, ws, p), SeqSum(ws))]

Mesh(M) == [rows |-> "index_iz_b", cols |-> "index_iz_eq", of |-> M]

propagator(kw, b1_offset) ==
    LET Ls == liouvillians(kw, b1_offset)
    IN IF IdealRegime
       THEN [regime |-> "eig", eig |-> EigPropagator(Ls[1], time_t1)]
       ELSE [regime |-> "expm", mean |-> Mesh(average(propagators(Ls), b1_weights))]

magz_b(kw, b1_offset) == [propagator |-> propagator(kw, b1_offset), mag0 |-> mag0(kw)]

LibraryCalls(kw, b1_offset) ==
    LET Ls == liouvillians(kw, b1_offset)
    IN IF IdealRegime
       THEN [eig |-> <<Ls[1]>>, inv |-> 1, expm |-> <<>>, average |-> 0]
       ELSE [eig |-> <<>>, inv |-> 0, expm |-> Ls, average |-> 1]

FailingCalls == IF IdealRegime THEN {"eig", "inv"} ELSE {"expm"}

AppendPoint_front(p, x) == <<x>> \o p

AppendPoint(p, x) == Append(p, x)

CalcFrame_inplace ==
    /\ liouvillians_b1' = IF pc = "loop" /\ index < Len(b1_offsets)
                          THEN liouvillians(kwargs, b1_offsets[index + 1])
                          ELSE liouvillians_b1
    /\ UNCHANGED <<ctor, carrier, ppm_i, on_resonance_filter, time_t1, time_d1,
                   b1_inh, b1_weights, arrays, meas0, applied>>

CalcFrame == UNCHANGED <<ctor, settings, arrays, meas0, applied>>

Propagate_substitute(call_name) ==
    /\ pc' = "loop"
    /\ fault' = [call |-> call_name, at |-> index]
    /\ profile' = Append(profile, [propagator |-> [regime |-> "eps"], mag0 |-> mag0(kwargs)])
    /\ calls' = Append(calls, LibraryCalls(kwargs, b1_offsets[index + 1]))
    /\ index' = index + 1
    /\ UNCHANGED <<ret, memo>>

Propagate(call_name) ==
    /\ pc' = "raised"
    /\ fault' = [call |-> call_name, at |-> index]
    /\ UNCHANGED <<index, profile, ret, calls, memo>>

CalcBegin ==
    /\ Idle
    /\ \E kw \in KwargsSet : kwargs' = kw
    /\ index' = 0
    /\ profile' = <<>>
    /\ ret' = <<>>
    /\ fault' = NoFault
    /\ calls' = <<>>
    /\ pc' = "loop"
    /\ op' = [name |-> "calculate_unscaled_profile", cs |-> 0]
    /\ UNCHANGED memo
    /\ CalcFrame

CalcPoint ==
    /\ pc = "loop"
    /\ index < Len(b1_offsets)
    /\ LET b1_offset == b1_offsets[index + 1]
       IN /\ profile' = AppendPoint(profile, magz_b(kwargs, b1_offset))
          /\ calls' = Append(calls, LibraryCalls(kwargs, b1_offset))
    /\ index' = index + 1
    /\ UNCHANGED <<pc, op, kwargs, ret, fault, memo>>
    /\ CalcFrame

CalcRaise ==
    /\ pc = "loop"
    /\ index < Len(b1_offsets)
    /\ \E c \in FailingCalls : Propagate(c)
    /\ UNCHANGED <<op, kwargs>>
    /\ CalcFrame

CalcReturn ==
    /\ pc = "loop"
    /\ index = Len(b1_offsets)
    /\ ret' = profile
    /\ pc' = "returned"
    /\ memo' = [memo EXCEPT ![kwargs] = [known |-> TRUE, value |-> profile]]
    /\ UNCHANGED <<op, kwargs, index, profile, fault, calls>>
    /\ CalcFrame

Next == TieR2 \/ filter_points \/ CalcBegin \/ CalcPoint \/ CalcRaise \/ CalcReturn

Spec == Init /\ [][Next]_vars

-----------------------------------------------------------------------------
(* Properties *)

RECURSIVE PickFrom(_, _, _)
PickFrom(arr, S, i) ==
    IF i > Len(arr) THEN <<>>
    ELSE IF i \in S THEN <<arr[i]>> \o PickFrom(arr, S, i + 1)
         ELSE PickFrom(arr, S, i + 1)

SubSeqAt(arr, S) == PickFrom(arr, S, 1)

Scale(ws, c) == [k \in 1..Len(ws) |-> c * ws[k]]

SeparationHz(cs, b1_offset) == Abs((cs - carrier) * ppm_i - b1_offset)

IsFilterStep == op'.name = "filter_points"

ArraysAre(ms) ==
    /\ b1_offsets = Column(ms, "b1_offset")
    /\ val = Column(ms, "val")
    /\ err = Column(ms, "err")
    /\ reference = Column(ms, "reference")

\* C1 (as stated): filter_points removes a point if and only if its separation
\* from the state-B resonance is smaller than half of on_resonance_filter, so
\* a point at exactly half the threshold is retained.
C1_RemovesIffBelowHalf ==
    [][IsFilterStep =>
          b1_offsets' = SubSeqAt(b1_offsets,
              { i \in 1..Len(b1_offsets) :
                  ~ (2 * SeparationHz(op'.cs, b1_offsets[i]) < on_resonance_filter) })]_vars

\* C1 (amended): filter_points retains a point if and only if its separation
\* from the state-B resonance is strictly greater than half of
\* on_resonance_filter; every other point, the one at exactly half the
\* threshold included, is removed.  With threshold 50 Hz, resonance at 300 Hz
\* and offsets [250, 290, 310, 1000] the result is [250, 1000].
C1_RetainsIffAboveHalf ==
    /\ [][IsFilterStep =>
            b1_offsets' = SubSeqAt(b1_offsets,
                { i \in 1..Len(b1_offsets) :
                    2 * SeparationHz(op'.cs, b1_offsets[i]) > on_resonance_filter })]_vars
    /\ []((/\ Column(meas0, "b1_offset") = <<250, 290, 310, 1000>>
           /\ on_resonance_filter = 50
           /\ applied # {}
           /\ \A cs \in applied : (cs - carrier) * ppm_i = 300)
          => b1_offsets = <<250, 1000>>)

C1_Witness ==
    /\ op.name = "filter_points"
    /\ (op.cs - carrier) * ppm_i = 300
    /\ on_resonance_filter = 50
    /\ applied = {op.cs}
    /\ Column(meas0, "b1_offset") = <<275, 290, 1000>>
    /\ b1_offsets = <<1000>>

\* C2: filter_points is idempotent: right after a call with some cs_i_b, a
\* second call with the same cs_i_b and threshold removes nothing from
\* b1_offsets, val, err and reference.
C2_Idempotent ==
    op.name = "filter_points" =>
        LET m == mask(op.cs)
        IN /\ \A i \in 1..Len(b1_offsets) : m[i]
           /\ ApplyMask(b1_offsets, m) = b1_offsets
           /\ Masked_val(m) = val
           /\ ApplyMask(err, m) = err
           /\ ApplyMask(reference, m) = reference

C2_Witness ==
    /\ op.name = "filter_points"
    /\ Len(b1_offsets) = 2
    /\ Len(meas0) = 3
    /\ on_resonance_filter = 50

\* C3: after any sequence of filter_points calls the four arrays have the
\* same length and are the original arrays restricted to one common set of
\* original indices, in the original order.
C3_Coindexed ==
    /\ Len(b1_offsets) = Len(val)
    /\ Len(val) = Len(err)
    /\ Len(err) = Len(reference)
    /\ \E S \in SUBSET (1..Len(meas0)) : ArraysAre(SubSeqAt(meas0, S))

C3_Witness ==
    /\ Cardinality(applied) = 2
    /\ Len(meas0) = 3
    /\ Len(b1_offsets) = 2
    /\ val[1] # val[2]

\* C4: calculate_unscaled_profile returns one intensity per active point, in
\* the order of b1_offsets, entry i being computed from b1_offsets[i]; after
\* filtering the result stays index-aligned with val, err and reference.
C4_OnePerPointInOrder ==
    pc = "returned" =>
        /\ Len(ret) = Len(b1_offsets)
        /\ Len(ret) = Len(val)
        /\ Len(ret) = Len(err)
        /\ Len(ret) = Len(reference)
        /\ \A i \in 1..Len(ret) : ret[i] = magz_b(kwargs, b1_offsets[i])

C4_Witness ==
    /\ pc = "returned"
    /\ applied # {}
    /\ Len(ret) = 2
    /\ Len(meas0) = 3
    /\ ret[1] # ret[2]

\* C5: every evaluated point uses exactly one propagator regime, chosen by
\* b1_inh alone: the eigenmode regime on the first Liouvillian, without
\* averaging, when b1_inh is the infinite sentinel; one matrix exponential
\* per field-scale value followed by their weighted average when it is finite.
C5_OneRegimePerEvaluation ==
    \A i \in 1..Len(calls) :
        IF b1_inh.inf
        THEN /\ calls[i].eig = <<liouvillians(kwargs, b1_offsets[i])[1]>>
             /\ calls[i].inv = 1
             /\ calls[i].expm = <<>>
             /\ calls[i].average = 0
             /\ profile[i].propagator.regime = "eig"
        ELSE /\ calls[i].eig = <<>>
             /\ calls[i].inv = 0
             /\ calls[i].expm = liouvillians(kwargs, b1_offsets[i])
             /\ Len(calls[i].expm) = Len(b1_weights)
             /\ calls[i].average = 1
             /\ profile[i].propagator.regime = "expm"

C5_Witness ==
    /\ ~ b1_inh.inf
    /\ Len(b1_weights) = 3
    /\ Len(calls) >= 2
    /\ Len(profile) = Len(calls)

\* C6: in the finite-field regime the propagator is the weighted mean of the
\* per-field-scale matrix exponentials (coefficient weight_k / sum of weights):
\* with the single weight 1 it is that one matrix exponential, and scaling all
\* weights by a positive constant leaves it unchanged.
C6_WeightedMean ==
    \A i \in 1..Len(profile) :
        ~ b1_inh.inf =>
            LET M == profile[i].propagator.mean.of
                Ps == propagators(liouvillians(kwargs, b1_offsets[i]))
            IN /\ DOMAIN M = { Ps[k] : k \in 1..Len(Ps) }
               /\ \A p \in DOMAIN M :
                    /\ M[p][2] > 0
                    /\ M[p][1] * SeqSum(b1_weights)
                         = M[p][2] * SeqSum([k \in 1..Len(Ps) |->
                                               IF Ps[k] = p THEN b1_weights[k] ELSE 0])
               /\ b1_weights = <<1>> => M = (Ps[1] :> <<1, 1>>)
               /\ \A c \in 1..MaxScale : average(Ps, Scale(b1_weights, c)) = M

C6_Witness ==
    /\ ~ b1_inh.inf
    /\ b1_weights = <<2, 3, 2>>
    /\ Len(profile) >= 1

\* C7: calculate_unscaled_profile leaves b1_offsets, val, err, reference,
\* liouvillians_b1, map_names and default_params unchanged; two calls with the
\* same parameter set and no filter_points call in between return the same
\* profile; only filter_points changes the measurement arrays.
C7_CalculateHasNoSideEffect ==
    [][/\ op'.name = "calculate_unscaled_profile" =>
             UNCHANGED <<arrays, liouvillians_b1, map_names, default_params>>
       /\ arrays' # arrays => op'.name = "filter_points"
       /\ (pc = "loop" /\ pc' = "returned" /\ memo[kwargs].known) =>
             ret' = memo[kwargs].value]_vars

C7_Witness ==
    /\ pc = "returned"
    /\ Len(ret) >= 2
    /\ \A kw \in KwargsSet : memo[kw].known

\* C8: a numerical failure at a measurement point ends the whole call in an
\* error: no array is returned, nothing is substituted for the failing point
\* and the points after it are not evaluated.
C8_FailureEndsTheCall ==
    fault.call # "none" =>
        /\ pc = "raised"
        /\ ret = <<>>
        /\ index = fault.at
        /\ Len(profile) = fault.at
        /\ Len(calls) = fault.at

C8_Witness ==
    /\ pc = "raised"
    /\ fault.at >= 1
    /\ fault.at + 1 < Len(b1_offsets)

\* C9: after construction each of r2_i_b, r2_i_c, r2_i_d present in map_names
\* has its default parameter's expression set to the handle of r2_i_a; absent
\* names are skipped and no other parameter's expression is changed.
C9_R2TiedToStateA ==
    pc # "new" =>
        /\ DOMAIN default_params = DOMAIN expr0
        /\ \A n \in {"r2_i_b", "r2_i_c", "r2_i_d"} :
               n \in DOMAIN map_names =>
                   default_params[map_names[n]].expr = map_names["r2_i_a"]
        /\ \A h \in DOMAIN default_params :
               h \notin { map_names[n] :
                            n \in {"r2_i_b", "r2_i_c", "r2_i_d"} \cap DOMAIN map_names } =>
                   default_params[h].expr = expr0[h]

C9_Witness ==
    /\ pc # "new"
    /\ "r2_i_c" \in DOMAIN map_names
    /\ "r2_i_d" \notin DOMAIN map_names
    /\ expr0[map_names["r2_i_b"]] = PresetExpr
    /\ default_params[map_names["r2_i_b"]].expr = map_names["r2_i_a"]

\* C10: across filter_points calls with arbitrary cs_i_b values the active
\* points only shrink and are never restored: the arrays always hold exactly
\* the original points that pass the keep-criterion of every call made so far,
\* whatever the order of the calls.
C10_OnlyShrinks ==
    ArraysAre(SubSeqAt(meas0,
        { i \in 1..Len(meas0) :
            \A cs \in applied :
                2 * SeparationHz(cs, meas0[i].b1_offset) > on_resonance_filter }))

C10_Witness ==
    /\ Cardinality(applied) = 2
    /\ op.name = "filter_points"
    /\ meas0 # <<>>
    /\ meas0[1].b1_offset = 250
    /\ 2 * SeparationHz(op.cs, 250) > on_resonance_filter
    /\ b1_offsets # <<>>
    /\ b1_offsets[1] # 250

====
